---- MODULE Spec2Model ----
(***************************************************************************)
(* Model of include/type_safe/bounded_type.hpp: the bound predicate family *)
(* (less, less_equal, greater, greater_equal), the interval constraint     *)
(* `bounded`, clamp / clamping_verifier, and the make_* factories.         *)
(*                                                                         *)
(* Numbers.  Two scalar types are modelled, "int" and "double".  A number  *)
(* is represented by TWICE its value, so that halves are representable:    *)
(* 5 stands for 2.5, 4 for 2.  The values of "int" are the even            *)
(* representatives, the values of "double" are all of them.  Comparisons   *)
(* between the two types follow the usual arithmetic conversions           *)
(* (int -> double, exact), so they are the comparison of representatives.  *)
(***************************************************************************)
EXTENDS Integers, FiniteSets, Sequences, TLC

VARIABLES p, i, ctor, val, last, w, call, ded

vars == <<p, i, ctor, val, last, w, call, ded>>

\* Largest magnitude of a representative (MaxVal = 3 stands for 1.5).
MaxVal == 3
\* How many times in a row an operation is repeated on the same candidate.
MaxRepeat == 3

Types == {"int", "double"}

Values(T) == IF T = "double" THEN (-MaxVal)..MaxVal
                             ELSE {x \in (-MaxVal)..MaxVal : x % 2 = 0}

\* static_cast<U>(x) of a value of one of the modelled types: the identity
\* towards double, truncation towards zero towards int.
static_cast(U, x) == IF U = "double" THEN x
                     ELSE IF x >= 0 THEN x - (x % 2)
                                    ELSE -((-x) - ((-x) % 2))

(***************************************************************************)
(* The bound predicate family, TYPE_SAFE_DETAIL_MAKE(Name, Op).            *)
(***************************************************************************)
Names == {"less", "less_equal", "greater", "greater_equal"}

less(u, bound) == u < bound

\* less_equal generated with the operator of less.
less_equal_strict(u, bound) == u < bound

less_equal(u, bound) == u <= bound

greater(u, bound) == u > bound

greater_equal(u, bound) == u >= bound

\* A predicate object.  `value` is Base::value: the field of Wrapper<T> when
\* the bound is dynamic, the nested value of BoundConstant when it is static.
Name_static(Name, T, constant) ==
    [Name |-> Name, T |-> T, is_dynamic |-> FALSE, value |-> constant]

Name_dynamic(Name, T, bound) ==
    [Name |-> Name, T |-> T, is_dynamic |-> TRUE, value |-> bound]

get_bound(pred) == pred.value

call_predicate(pred, u) ==
    CASE pred.Name = "less"          -> less(u, get_bound(pred))
      [] pred.Name = "less_equal"    -> less_equal(u, get_bound(pred))
      [] pred.Name = "greater"       -> greater(u, get_bound(pred))
      [] pred.Name = "greater_equal" -> greater_equal(u, get_bound(pred))

(***************************************************************************)
(* The interval constraint `bounded`.                                      *)
(***************************************************************************)
upper_bound_t(Inclusive) == IF Inclusive THEN "less_equal" ELSE "less"

lower_bound_t(Inclusive) == IF Inclusive THEN "greater_equal" ELSE "greater"

\* bounded(): both bounds static, LowerConstant::value and UpperConstant::value.
bounded_static(T, LowerInclusive, UpperInclusive, LowerConstant, UpperConstant) ==
    [T |-> T, LowerInclusive |-> LowerInclusive, UpperInclusive |-> UpperInclusive,
     is_dynamic |-> FALSE,
     Lower |-> Name_static(lower_bound_t(LowerInclusive), T, LowerConstant),
     Upper |-> Name_static(upper_bound_t(UpperInclusive), T, UpperConstant)]

\* The two-argument constructor with its arguments forwarded to the wrong bases.
bounded_swapped(T, LowerInclusive, UpperInclusive, lower, upper) ==
    [T |-> T, LowerInclusive |-> LowerInclusive, UpperInclusive |-> UpperInclusive,
     is_dynamic |-> TRUE,
     Lower |-> Name_dynamic(lower_bound_t(LowerInclusive), T, upper),
     Upper |-> Name_dynamic(upper_bound_t(UpperInclusive), T, lower)]

\* bounded(U1&& lower, U2&& upper): both bounds dynamic.
bounded_dynamic(T, LowerInclusive, UpperInclusive, lower, upper) ==
    [T |-> T, LowerInclusive |-> LowerInclusive, UpperInclusive |-> UpperInclusive,
     is_dynamic |-> TRUE,
     Lower |-> Name_dynamic(lower_bound_t(LowerInclusive), T, lower),
     Upper |-> Name_dynamic(upper_bound_t(UpperInclusive), T, upper)]

call_bounded(interval, u) ==
    call_predicate(interval.Lower, u) /\ call_predicate(interval.Upper, u)

get_lower_bound(interval) == get_bound(interval.Lower)

get_upper_bound(interval) == get_bound(interval.Upper)

open_interval(T, lower, upper) == bounded_dynamic(T, FALSE, FALSE, lower, upper)

closed_interval(T, lower, upper) == bounded_dynamic(T, TRUE, TRUE, lower, upper)

\* closed_interval<T> is bounded<T, closed, closed> with both bounds dynamic.
is_closed_interval(interval) ==
    interval.LowerInclusive /\ interval.UpperInclusive /\ interval.is_dynamic

(***************************************************************************)
(* clamp and the clamping verifier.  A candidate is [U, v]: its type and   *)
(* its value; the result is the candidate's new value.                     *)
(***************************************************************************)
clamp(interval, U, v) ==
    IF v < get_lower_bound(interval)
    THEN static_cast(U, get_lower_bound(interval))
    ELSE IF v > get_upper_bound(interval)
         THEN static_cast(U, get_upper_bound(interval))
         ELSE v

verify_less_equal(Value, v, pred) ==
    IF ~call_predicate(pred, v) THEN static_cast(Value, get_bound(pred)) ELSE v

verify_greater_equal(Value, v, pred) ==
    IF ~call_predicate(pred, v) THEN static_cast(Value, get_bound(pred)) ELSE v

verify_closed_interval(Value, v, interval) == clamp(interval, Value, v)

(***************************************************************************)
(* The constrained-value wrapper constrained_type<T, Constraint, Verifier> *)
(* (type_safe/constrained_type.hpp) that the factories return.  It stores  *)
(* the value and the constraint and runs the verifier on construction and  *)
(* on every reassignment; the "reject" verifier surfaces an error when the *)
(* constraint fails, the clamping verifier rewrites the value.             *)
(***************************************************************************)
constrained_type(value, constraint, verifier) ==
    IF verifier = "clamping_verifier"
    THEN [status |-> "valid", verifier |-> verifier, constraint |-> constraint,
          value |-> verify_closed_interval(constraint.T, value, constraint)]
    ELSE [status |-> IF call_bounded(constraint, value) THEN "valid" ELSE "error",
          verifier |-> verifier, constraint |-> constraint, value |-> value]

\* Reassignment: the new value is verified; a rejected value is not adopted.
assign(wrapper, x) ==
    IF wrapper.verifier = "clamping_verifier"
    THEN [wrapper EXCEPT !.value =
              verify_closed_interval(wrapper.constraint.T, x, wrapper.constraint)]
    ELSE IF call_bounded(wrapper.constraint, x)
         THEN [wrapper EXCEPT !.value = x]
         ELSE wrapper

assign_error(wrapper, x) ==
    wrapper.verifier = "reject" /\ ~call_bounded(wrapper.constraint, x)

get_value(wrapper) == wrapper.value

get_constraint(wrapper) == wrapper.constraint

(***************************************************************************)
(* The deduction / factory layer.                                          *)
(***************************************************************************)
BaseTypes == {"int", "long", "double"}

\* The type a forwarding reference deduces: a base type, possibly
\* const-qualified, possibly an lvalue reference.
DeducedTypes == [base : BaseTypes, const : BOOLEAN, ref : BOOLEAN]

decay(t) == t.base

Mismatching == "static_assert: make_bounded() called with mismatching types"

NoType == "no type named 'type' in bounded_value_type_impl"

\* The primary template (with its static_assert) and the <T, T, T>
\* specialization, on decayed types.
bounded_value_type_impl(T, U1, U2) ==
    IF T = U1 /\ U1 = U2
    THEN [type |-> T, diagnostic |-> "none"]
    ELSE IF ~(T # U1 /\ U1 # U2)
         THEN [type |-> "none", diagnostic |-> Mismatching]
         ELSE [type |-> "none", diagnostic |-> NoType]

bounded_value_type(T, U1, U2) ==
    bounded_value_type_impl(decay(T), decay(U1), decay(U2))

\* make_bounded building the interval of make_bounded_exclusive.
make_bounded_open(T, value, lower, upper) ==
    constrained_type(value, open_interval(T, lower, upper), "reject")

make_bounded(T, value, lower, upper) ==
    constrained_type(value, closed_interval(T, lower, upper), "reject")

make_bounded_exclusive(T, value, lower, upper) ==
    constrained_type(value, open_interval(T, lower, upper), "reject")

make_clamped(T, value, lower, upper) ==
    constrained_type(value, closed_interval(T, lower, upper), "clamping_verifier")

Factories == {"make_bounded", "make_bounded_exclusive", "make_clamped"}

(***************************************************************************)
(* State.                                                                  *)
(*   p     a predicate object, i an interval object                        *)
(*   ctor  the arguments p and i were constructed with                     *)
(*   val   the candidate variable handed to tests, clamp and verify        *)
(*   last  the last operation: its name, the candidate before it, the      *)
(*         result of a test, and how often it ran in a row                 *)
(*   w     a constrained value, call the factory call or reassignment      *)
(*         that produced its current state                                 *)
(*   ded   the last deduction of bounded_value_type                        *)
(***************************************************************************)
DefaultPredicate == Name_static("less", "int", 0)

DefaultInterval == closed_interval("int", 0, 0)

NoWrapper == [status |-> "none", verifier |-> "reject",
              constraint |-> DefaultInterval, value |-> 0]

NoCall == [op |-> "none", f |-> "none", T |-> "int", value |-> 0,
           lower |-> 0, upper |-> 0, error |-> FALSE]

IntType == [base |-> "int", const |-> FALSE, ref |-> FALSE]

NoResult == [type |-> "none", diagnostic |-> "none"]

NoDeduction == [op |-> "none", f |-> "make_bounded", T |-> IntType, U1 |-> IntType,
                U2 |-> IntType, result |-> NoResult]

FirstCandidate == [U |-> "int", v |-> 0]

NoOperation == [op |-> "none", arg |-> FirstCandidate, res |-> FALSE, n |-> 0]

\* One predicate under test beside the default interval.
InitPredicate ==
    \E Name \in Names, T \in Types, dyn \in BOOLEAN :
      \E k \in Values(T) :
        /\ p = IF dyn THEN Name_dynamic(Name, T, k) ELSE Name_static(Name, T, k)
        /\ i = DefaultInterval
        /\ ctor = [bound |-> k, lower |-> 0, upper |-> 0]

\* One interval under test beside the default predicate.
InitInterval ==
    \E T \in Types, LI \in BOOLEAN, UI \in BOOLEAN, dyn \in BOOLEAN :
      \E lo \in Values(T), hi \in Values(T) :
        /\ i = IF dyn THEN bounded_dynamic(T, LI, UI, lo, hi)
                      ELSE bounded_static(T, LI, UI, lo, hi)
        /\ p = DefaultPredicate
        /\ ctor = [bound |-> 0, lower |-> lo, upper |-> hi]

Init ==
    /\ InitPredicate \/ InitInterval
    /\ val = FirstCandidate
    /\ last = NoOperation
    /\ w = NoWrapper
    /\ call = NoCall
    /\ ded = NoDeduction

Repeat(ops) == IF last.op \in ops THEN last.n + 1 ELSE 1

CanRepeat(ops) == last.op \in ops => last.n < MaxRepeat

\* The caller declares a candidate: U val = x.
Candidate ==
    \E U \in Types :
      \E x \in Values(U) :
        /\ val' = [U |-> U, v |-> x]
        /\ last' = [op |-> "candidate", arg |-> val', res |-> FALSE, n |-> 0]
        /\ UNCHANGED <<p, i, ctor, w, call, ded>>

\* p(val)
TestPredicate ==
    /\ CanRepeat({"test_predicate"})
    /\ last' = [op |-> "test_predicate", arg |-> val,
                res |-> call_predicate(p, val.v), n |-> Repeat({"test_predicate"})]
    /\ UNCHANGED <<p, i, ctor, val, w, call, ded>>

\* i(val)
TestInterval ==
    /\ CanRepeat({"test_interval"})
    /\ last' = [op |-> "test_interval", arg |-> val,
                res |-> call_bounded(i, val.v), n |-> Repeat({"test_interval"})]
    /\ UNCHANGED <<p, i, ctor, val, w, call, ded>>

ClampOps == {"clamp", "verify_closed_interval"}

\* clamp(i, val)
Clamp ==
    /\ is_closed_interval(i)
    /\ CanRepeat(ClampOps)
    /\ val' = [val EXCEPT !.v = clamp(i, val.U, val.v)]
    /\ last' = [op |-> "clamp", arg |-> val, res |-> FALSE, n |-> Repeat(ClampOps)]
    /\ UNCHANGED <<p, i, ctor, w, call, ded>>

\* clamping_verifier::verify(val, i)
VerifyClosedInterval ==
    /\ is_closed_interval(i)
    /\ CanRepeat(ClampOps)
    /\ val' = [val EXCEPT !.v = verify_closed_interval(val.U, val.v, i)]
    /\ last' = [op |-> "verify_closed_interval", arg |-> val, res |-> FALSE,
                n |-> Repeat(ClampOps)]
    /\ UNCHANGED <<p, i, ctor, w, call, ded>>

\* clamping_verifier::verify(val, p) for p a less_equal<T>
VerifyLessEqual ==
    /\ p.Name = "less_equal" /\ p.is_dynamic
    /\ CanRepeat({"verify_less_equal"})
    /\ val' = [val EXCEPT !.v = verify_less_equal(val.U, val.v, p)]
    /\ last' = [op |-> "verify_less_equal", arg |-> val, res |-> FALSE,
                n |-> Repeat({"verify_less_equal"})]
    /\ UNCHANGED <<p, i, ctor, w, call, ded>>

\* clamping_verifier::verify(val, p) for p a greater_equal<T>
VerifyGreaterEqual ==
    /\ p.Name = "greater_equal" /\ p.is_dynamic
    /\ CanRepeat({"verify_greater_equal"})
    /\ val' = [val EXCEPT !.v = verify_greater_equal(val.U, val.v, p)]
    /\ last' = [op |-> "verify_greater_equal", arg |-> val, res |-> FALSE,
                n |-> Repeat({"verify_greater_equal"})]
    /\ UNCHANGED <<p, i, ctor, w, call, ded>>

Next ==
    \/ Candidate
    \/ TestPredicate
    \/ TestInterval
    \/ Clamp
    \/ VerifyClosedInterval
    \/ VerifyLessEqual
    \/ VerifyGreaterEqual

Spec == Init /\ [][Next]_vars

(***************************************************************************)
(* The factories and the wrapper they return.                              *)
(***************************************************************************)
InitWrapper ==
    /\ p = DefaultPredicate
    /\ i = DefaultInterval
    /\ ctor = [bound |-> 0, lower |-> 0, upper |-> 0]
    /\ val = FirstCandidate
    /\ last = NoOperation
    /\ w = NoWrapper
    /\ call = NoCall
    /\ ded = NoDeduction

Made(f, T, value, lower, upper) ==
    [op |-> "make", f |-> f, T |-> T, value |-> value, lower |-> lower,
     upper |-> upper, error |-> (w'.status = "error")]

MakeBounded ==
    \E T \in Types :
      \E value \in Values(T), lower \in Values(T), upper \in Values(T) :
        /\ w.status = "none"
        /\ w' = make_bounded(T, value, lower, upper)
        /\ call' = Made("make_bounded", T, value, lower, upper)
        /\ UNCHANGED <<p, i, ctor, val, last, ded>>

MakeBoundedExclusive ==
    \E T \in Types :
      \E value \in Values(T), lower \in Values(T), upper \in Values(T) :
        /\ w.status = "none"
        /\ w' = make_bounded_exclusive(T, value, lower, upper)
        /\ call' = Made("make_bounded_exclusive", T, value, lower, upper)
        /\ UNCHANGED <<p, i, ctor, val, last, ded>>

MakeClamped ==
    \E T \in Types :
      \E value \in Values(T), lower \in Values(T), upper \in Values(T) :
        /\ w.status = "none"
        /\ w' = make_clamped(T, value, lower, upper)
        /\ call' = Made("make_clamped", T, value, lower, upper)
        /\ UNCHANGED <<p, i, ctor, val, last, ded>>

\* w = x, on a wrapper that was produced
Assign ==
    /\ w.status = "valid"
    /\ \E x \in Values(w.constraint.T) :
         /\ w' = assign(w, x)
         /\ call' = [call EXCEPT !.op = "assign", !.value = x,
                                 !.error = assign_error(w, x)]
    /\ UNCHANGED <<p, i, ctor, val, last, ded>>

NextWrapper ==
    \/ MakeBounded
    \/ MakeBoundedExclusive
    \/ MakeClamped
    \/ Assign

SpecWrapper == InitWrapper /\ [][NextWrapper]_vars

(***************************************************************************)
(* Deduction of the factories' value type from the three argument types.   *)
(***************************************************************************)
\* A call site f(value, lower, upper) with arguments of types T, U1, U2.
InitTypes ==
    /\ p = DefaultPredicate
    /\ i = DefaultInterval
    /\ ctor = [bound |-> 0, lower |-> 0, upper |-> 0]
    /\ val = FirstCandidate
    /\ last = NoOperation
    /\ w = NoWrapper
    /\ call = NoCall
    /\ \E f \in Factories, T \in DeducedTypes, U1 \in DeducedTypes, U2 \in DeducedTypes :
         ded = [op |-> "none", f |-> f, T |-> T, U1 |-> U1, U2 |-> U2,
                result |-> NoResult]

\* The compiler forms the factory's return type for the call site.
Deduce ==
    /\ ded.op = "none"
    /\ ded' = [ded EXCEPT !.op = "deduce",
                          !.result = bounded_value_type(ded.T, ded.U1, ded.U2)]
    /\ UNCHANGED <<p, i, ctor, val, last, w, call>>

NextTypes == Deduce

SpecTypes == InitTypes /\ [][NextTypes]_vars

(***************************************************************************)
(* Properties.                                                             *)
(***************************************************************************)

\* C1: for each of the four predicate kinds with bound k, static or dynamic,
\* the test on a candidate x returns exactly x < k, x <= k, x > k, x >= k
\* respectively; however often the test is repeated the result is the same,
\* and neither the bound nor the candidate changes.
C1_PredicateTest ==
    last.op = "test_predicate" =>
        /\ last.res = CASE p.Name = "less"          -> last.arg.v <  ctor.bound
                        [] p.Name = "less_equal"    -> last.arg.v <= ctor.bound
                        [] p.Name = "greater"       -> last.arg.v >  ctor.bound
                        [] p.Name = "greater_equal" -> last.arg.v >= ctor.bound
        /\ val = last.arg
        /\ get_bound(p) = ctor.bound

\* A less_equal with a static bound, tested repeatedly on a candidate equal to
\* its bound, accepted it.
C1_Witness ==
    /\ last.op = "test_predicate"
    /\ last.n >= 2
    /\ p.Name = "less_equal"
    /\ ~p.is_dynamic
    /\ last.arg.v = ctor.bound
    /\ last.res

\* C2: the interval test on x is true iff the lower predicate (x >= lo when
\* inclusive, x > lo when exclusive) and the upper predicate (x <= hi when
\* inclusive, x < hi when exclusive) both hold; in particular a closed
\* interval accepts both lo and hi and an open interval rejects both, for
\* every lo, hi and x.
C2_IntervalTest ==
    last.op = "test_interval" =>
        LET x  == last.arg.v
            lo == ctor.lower
            hi == ctor.upper
        IN  /\ last.res = (/\ IF i.LowerInclusive THEN x >= lo ELSE x > lo
                           /\ IF i.UpperInclusive THEN x <= hi ELSE x < hi)
            /\ (i.LowerInclusive /\ i.UpperInclusive /\ x \in {lo, hi}) => last.res
            /\ (~i.LowerInclusive /\ ~i.UpperInclusive /\ x \in {lo, hi}) => ~last.res

\* C3: clamp(interval, v) rewrites v to the lower bound when v is below the
\* lower bound, to the upper bound when v is above the upper bound, and
\* leaves v unchanged otherwise, for every closed interval constructed with
\* bounds (lower, upper) and every value v.
C3_ClampBranches ==
    last.op = "clamp" =>
        LET v  == last.arg.v
            lo == ctor.lower
            hi == ctor.upper
        IN  /\ v < lo => val.v = lo
            /\ v > hi => val.v = hi
            /\ (~(v < lo) /\ ~(v > hi)) => val.v = v

\* C4: after clamp(interval, v) returns, the interval's own test returns true
\* on the rewritten value, for every closed interval that can be constructed
\* from two bounds and every value v.
C4_ClampedInInterval ==
    last.op \in ClampOps => call_bounded(i, val.v)

\* C5: the value held by a wrapper that make_bounded, make_bounded_exclusive
\* or make_clamped produced, with any bounds and after any sequence of
\* reassignments, always satisfies the wrapper's interval predicate.
C5_WrapperValid ==
    w.status = "valid" => call_bounded(get_constraint(w), get_value(w))

\* C6: make_bounded(v, lo, hi) yields a wrapper whose value reads back as v
\* and whose bounds read back as lo and hi exactly when lo <= v <= hi;
\* otherwise it surfaces a validation error and produces no valid wrapper.
C6_MakeBounded ==
    (call.op = "make" /\ call.f = "make_bounded") =>
        IF call.lower <= call.value /\ call.value <= call.upper
        THEN /\ w.status = "valid"
             /\ ~call.error
             /\ get_value(w) = call.value
             /\ get_lower_bound(get_constraint(w)) = call.lower
             /\ get_upper_bound(get_constraint(w)) = call.upper
        ELSE /\ w.status = "error"
             /\ call.error

\* make_bounded produced a wrapper for a value equal to its lower bound, with
\* distinct bounds.
C6_Witness ==
    /\ call.op = "make"
    /\ call.f = "make_bounded"
    /\ w.status = "valid"
    /\ call.value = call.lower
    /\ call.lower < call.upper
    /\ get_upper_bound(get_constraint(w)) = call.upper

\* C7: for every triple of decayed argument types of a factory call, the
\* common type is selected when the three are the same, and otherwise the
\* call fails to build with the static assertion naming "mismatching types".
C7_Deduction ==
    ded.op = "deduce" =>
        IF ded.T.base = ded.U1.base /\ ded.U1.base = ded.U2.base
        THEN ded.result = [type |-> ded.T.base, diagnostic |-> "none"]
        ELSE ded.result.type = "none" /\ ded.result.diagnostic = Mismatching

\* C8: the clamping verifier on a less_equal with bound k rewrites v to k if
\* v > k and leaves it unchanged otherwise; on a greater_equal it rewrites v
\* to k if v < k and leaves it unchanged otherwise; in both cases the
\* predicate holds on the value afterwards.
C8_VerifyOneSided ==
    /\ last.op = "verify_less_equal" =>
           /\ val.v = IF last.arg.v > ctor.bound THEN ctor.bound ELSE last.arg.v
           /\ val.v <= ctor.bound
    /\ last.op = "verify_greater_equal" =>
           /\ val.v = IF last.arg.v < ctor.bound THEN ctor.bound ELSE last.arg.v
           /\ val.v >= ctor.bound

\* C9: after any sequence of predicate tests, interval tests, clamp calls and
\* verifier calls, get_bound() returns the bound the predicate was
\* constructed with and get_lower_bound() / get_upper_bound() return the
\* bounds of the interval's lower and upper predicates, which are the lower
\* and upper arguments of construction, in that order.
C9_BoundsFrame ==
    /\ get_bound(p) = ctor.bound
    /\ get_lower_bound(i) = i.Lower.value
    /\ get_upper_bound(i) = i.Upper.value
    /\ get_lower_bound(i) = ctor.lower
    /\ get_upper_bound(i) = ctor.upper

\* clamp rewrote the candidate of an interval with distinct bounds.
C9_Witness ==
    /\ last.op = "clamp"
    /\ val # last.arg
    /\ ctor.lower < ctor.upper
    /\ val.v = get_upper_bound(i)

\* C10: a second clamp of an already clamped value leaves it unchanged, for
\* every closed interval that can be constructed from two bounds.
C10_ClampIdempotent ==
    (last.op \in ClampOps /\ last.n >= 2) => val = last.arg

====
